---- MODULE Spec2Model ----
(***************************************************************************)
(* Model of gatereader/reader.py: the packet codec (_transmit_packet,      *)
(* _checksum_ok, _expect_packet), the reset check (_check_atr), the retry  *)
(* state machine (_transceive_with_retry) and the three public commands    *)
(* (set_leds, beep, RFID_send) of class Reader, over a serial transport.   *)
(*                                                                         *)
(* Python values are modelled as follows: an int is an integer, a bytes    *)
(* object is a sequence of integers 0..255, a member of the Enum PacketId  *)
(* is a record [name, value] (it is NOT an int: PacketId derives from      *)
(* Enum, not IntEnum), an exception is the string of its class name.       *)
(***************************************************************************)
EXTENDS Integers, Sequences, FiniteSets, TLC

----------------------------------------------------------------------------
(* Bounds of the model *)

\* Longest payload the codec specification enumerates exhaustively.
CodecMaxLen == 2
\* The device or line adds bytes to the receive buffer only while at most
\* this many bytes are already buffered.
MaxPending == 0

----------------------------------------------------------------------------
(* Program constants *)

\* class PacketId(Enum)
PacketIdValue ==
    [INVALID_PACKET |-> 0, ANSWER_TO_RESET |-> 1, CONTINUE_BOOT |-> 2,
     FIRMWARE_UPGRADE |-> 3, FW_UPGRADE_READY |-> 4, FW_WRITE |-> 5,
     FW_WRITE_ACK |-> 6, FW_UPDATE_FINISH |-> 7, GET_STATUS |-> 8,
     SET_LED |-> 9, ACK |-> 10, BEEP |-> 11, RFID_SEND |-> 12,
     RFID_SEND_COMPLETE |-> 13, RX_ERROR |-> 255]

\* PacketId.<name>: the Enum member, an object with a .value
PacketId(name) == [name |-> name, value |-> PacketIdValue[name]]

PacketIdMembers == {PacketId(n) : n \in DOMAIN PacketIdValue}

\* class ResponseLength(Enum)
RESPONSE_ATR == 5
TRANSMIT_OVERHEAD == 3

MAX_BEEP_LENGTH == 8
MAX_RFID_PAYLOAD == 128

\* the literal 5 of _check_atr: `if self.port.inWaiting() == 5` and
\* `self._expect_packet(5)`
ATR_WAITING == 5

\* range(0, 2) of the outer and of the inner loop of _transceive_with_retry
OUTER_TRIES == 2
INNER_TRIES == 2

----------------------------------------------------------------------------
(* Bytes *)

Byte == 0..255

RECURSIVE XorBits(_, _, _)
XorBits(a, b, n) ==
    IF n = 0 THEN 0
    ELSE (((a % 2) + (b % 2)) % 2) + 2 * XorBits(a \div 2, b \div 2, n - 1)

\* Python's ^ on two values that fit a byte
Xor(a, b) == XorBits(a, b, 8)

RECURSIVE Pow2(_)
Pow2(n) == IF n = 0 THEN 1 ELSE 2 * Pow2(n - 1)

\* bit b (0 = least significant) of x
Bit(x, b) == (x \div Pow2(b)) % 2

\* Bit b of acc ^ s[1] ^ ... ^ s[Len(s)]: the parity of bit b over acc and
\* every byte of s
XorAllBit(acc, s, b) ==
    (Bit(acc, b) + Cardinality({k \in DOMAIN s : Bit(s[k], b) = 1})) % 2

RECURSIVE XorAllBits(_, _, _)
XorAllBits(acc, s, b) ==
    IF b = 8 THEN 0
    ELSE XorAllBit(acc, s, b) * Pow2(b) + XorAllBits(acc, s, b + 1)

\* `for byte in payload: checksum ^= byte`, starting from acc (a byte)
XorAll(acc, s) == XorAllBits(acc, s, 0)

\* n copies of byte b
Fill(n, b) == [k \in 1..n |-> b]

----------------------------------------------------------------------------
(* PacketCodec *)

\* _transmit_packet without the last accumulation step a plausible slip
\* would drop: the length is left out of the checksum
TransmitFrameNoLength(packet_id, payload) ==
    <<packet_id.value, Len(payload)>> \o payload
        \o <<XorAll(packet_id.value, payload)>>

\* The bytes _transmit_packet hands to port.write
TransmitFrame(packet_id, payload) ==
    LET checksum == XorAll(Xor(packet_id.value, Len(payload)), payload)
    IN  <<packet_id.value, Len(payload)>> \o payload \o <<checksum>>

\* _checksum_ok that forgets `check ^= head.length`
ChecksumOkNoLength(head, payload, checksum) ==
    XorAll(head.id, payload) = checksum

\* _checksum_ok
ChecksumOk(head, payload, checksum) ==
    XorAll(Xor(head.id, head.length), payload) = checksum

NoHead == [id |-> -1, length |-> -1]

\* PacketHead.unpack_from(buf): the two-byte head and the rest of the
\* buffer; struct.error when the buffer holds fewer than two bytes
UnpackFrom(buf) ==
    IF Len(buf) < 2
    THEN [exc |-> "struct.error", head |-> NoHead, rest |-> <<>>]
    ELSE [exc |-> "none",
          head |-> [id |-> buf[1], length |-> buf[2]],
          rest |-> SubSeq(buf, 3, Len(buf))]

Raised(e) == [exc |-> e, p |-> NoHead, payload |-> <<>>]

\* _expect_packet applied to the bytes port.read returned
ExpectPacket(raw) ==
    LET u == UnpackFrom(raw)
    IN  IF u.exc = "struct.error" THEN Raised("CorruptedPacketException")
        ELSE IF u.rest = <<>> THEN Raised("IndexError")  \* payload[-1] of b''
        ELSE LET payload  == SubSeq(u.rest, 1, Len(u.rest) - 1)
                 checksum == u.rest[Len(u.rest)]
             IN  IF ~ChecksumOk(u.head, payload, checksum)
                 THEN Raised("CorruptedPacketException")
                 ELSE [exc |-> "none", p |-> u.head, payload |-> payload]

\* raw with bit `bit` (0..7) of its byte at position `pos` inverted
FlipBit(raw, pos, bit) ==
    [raw EXCEPT ![pos] = Xor(raw[pos], Pow2(bit))]

----------------------------------------------------------------------------
(* Python comparisons *)

\* == of an int and a PacketId member had PacketId been an IntEnum
IntEqEnumByValue(n, member) == n = member.value

\* `p.id == PacketId.RX_ERROR`: p.id is the int unpacked from a uint8 field,
\* PacketId.RX_ERROR is a member of a plain Enum.  Neither side defines
\* equality with the other, Python falls back to identity: never equal.
IntEqEnum(n, member) == FALSE

----------------------------------------------------------------------------
(* State *)

VARIABLES
    pc,           \* where the current command call stands
    cmd,          \* the public method called: set_leds, beep, RFID_send
    args,         \* the arguments the caller passed
    packet_id,    \* _transceive_with_retry: parameter packet_id
    payload,      \* _transceive_with_retry: parameter and local payload
    resp_length,  \* _transceive_with_retry: parameter resp_length
    i,            \* outer loop variable
    j,            \* inner loop variable
    rxbuf,        \* transport: bytes buffered for read (inWaiting counts them)
    rxsrc,        \* history: for each byte of rxbuf, "u" if the device sent it
                  \* on its own, "r" if it is the response to a written packet
    waiting,      \* history: what inWaiting() returned in this call, -1 if
                  \* the call has not asked
    writes,       \* history: frames written to the port during this call
    reads,        \* history: the port reads of this call and how each decoded
    ret,          \* what _transceive_with_retry returned: (p, payload)
    exc,          \* the exception that reached the caller, "none" if none
    result,       \* the value the command returned
    c_pc,         \* codec: stage of the encode/decode exercise
    c_id,         \* codec: packet id to encode
    c_payload,    \* codec: payload to encode
    c_raw,        \* codec: the bytes handed to the decoder
    c_mod,        \* codec: what was done to the frame before decoding
    c_out         \* codec: what _expect_packet made of c_raw

readerVars == <<pc, cmd, args, packet_id, payload, resp_length, i, j, rxbuf,
                rxsrc, waiting, writes, reads, ret, exc, result>>
codecVars == <<c_pc, c_id, c_payload, c_raw, c_mod, c_out>>
vars == <<readerVars, codecVars>>

NoArgs == [leds |-> 0, tones |-> <<>>, repeat |-> FALSE, data |-> <<>>]
NoRet == [p |-> NoHead, payload |-> <<>>]

Min(a, b) == IF a < b THEN a ELSE b

----------------------------------------------------------------------------
(* Transport and device *)

\* Packet ids the device answers with
DeviceIds == {"ACK", "RFID_SEND_COMPLETE", "RX_ERROR"}

\* A well-formed device frame of n bytes on the wire (n >= 3); every payload
\* byte is 0x22
DeviceFrame(name, n) == TransmitFrame(PacketId(name), Fill(n - 3, 34))

\* What may arrive on the line while the driver waits in read(n): nothing,
\* a well-formed frame of the awaited length, or one garbled on the line
Arrivals(n) ==
    IF Len(rxbuf) > MaxPending THEN {<<>>}
    ELSE {<<>>} \cup {DeviceFrame(d, n) : d \in DeviceIds}
                \cup {FlipBit(DeviceFrame("ACK", n), n, 0)}

\* How many of the bytes on the line reach the caller before RX_TIMEOUT.
\* Bytes already buffered are handed over at once, unless `stalled`: the
\* port reported them waiting and the read times out all the same (the case
\* the handler in _check_atr is written for).
CutPoints(total, n, stalled) ==
    {t \in 0..Len(total) :
        /\ stalled \/ t >= Min(n, Len(rxbuf))
        /\ \/ t <= ATR_WAITING + 1
           \/ t >= n - 1
           \/ t = Len(total) - ATR_WAITING}

\* port.read(n): up to n bytes; fewer than n when the timeout expires first.
\* Bytes that arrive after the timeout stay buffered.  What arrives during
\* a read is the device's response ("r").  `late` says that the bytes handed
\* over include a response that was already buffered when the read began.
ReadOutcomes(n, stalled) ==
    UNION {{[data |-> SubSeq(rxbuf \o a, 1, Min(n, t)),
             rest |-> SubSeq(rxbuf \o a, Min(n, t) + 1, Len(rxbuf \o a)),
             restsrc |-> SubSeq(rxsrc \o Fill(Len(a), "r"), Min(n, t) + 1,
                                Len(rxbuf \o a)),
             late |-> \E k \in 1..Min(Min(n, t), Len(rxsrc)) : rxsrc[k] = "r",
             short |-> t < n] : t \in CutPoints(rxbuf \o a, n, stalled)}
           : a \in Arrivals(n)}

\* Bytes the device sends on its own while no command is running
Unsolicited ==
    {DeviceFrame("ANSWER_TO_RESET", ATR_WAITING),
     DeviceFrame("ACK", ATR_WAITING),
     FlipBit(DeviceFrame("ACK", ATR_WAITING), ATR_WAITING, 0),
     <<0>>}

\* What the histories keep of one read; `late` is kept of the drain alone
ReadRecord(at, n, rd, r) ==
    [at |-> at, n |-> n, short |-> rd.short, late |-> at = "drain" /\ rd.late,
     exc |-> r.exc, id |-> r.p.id]

----------------------------------------------------------------------------
(* Caller's inputs *)

LedMasks == {3}
SampleTone == <<440, 100>>
\* beep's (number of tones, repeat)
BeepInputs ==
    {<<0, FALSE>>, <<MAX_BEEP_LENGTH, TRUE>>, <<MAX_BEEP_LENGTH + 1, FALSE>>}
\* RFID_send's payload lengths; every payload byte is 0x11
DataLengths == {0, MAX_RFID_PAYLOAD, MAX_RFID_PAYLOAD + 1}

----------------------------------------------------------------------------
(* CommandLayer: argument checks and payload shaping *)

\* struct.pack(STRUCT_FORMAT + 'HH', tone[0], tone[1]): two 16-bit fields
PackTone(tone) ==
    <<tone[1] % 256, tone[1] \div 256, tone[2] % 256, tone[2] \div 256>>

RECURSIVE PackTones(_)
PackTones(tones) ==
    IF tones = <<>> THEN <<>> ELSE PackTone(Head(tones)) \o PackTones(Tail(tones))

\* beep: the payload built from tones and repeat
BeepPayload(tones, repeat) ==
    PackTones(tones) \o <<IF repeat THEN 1 ELSE 0>>

\* beep's check, off by one
TooManyTonesOffByOne(tones) == Len(tones) > MAX_BEEP_LENGTH + 1

\* beep: `if len(tones) > Reader.MAX_BEEP_LENGTH`
TooManyTones(tones) == Len(tones) > MAX_BEEP_LENGTH

\* RFID_send's check, off by one
TooMuchDataOffByOne(data) == Len(data) > MAX_RFID_PAYLOAD + 1

\* RFID_send: `if len(payload) > Reader.MAX_RFID_PAYLOAD`
TooMuchData(data) == Len(data) > MAX_RFID_PAYLOAD

\* RFID_send awaiting the fixed length of set_leds and beep
RfidResponseLengthFixed(data) == RESPONSE_ATR

\* RFID_send: `len(payload) + ResponseLength.TRANSMIT_OVERHEAD.value`
RfidResponseLength(data) == Len(data) + TRANSMIT_OVERHEAD

----------------------------------------------------------------------------
(* Reader: one command call, step by step *)

Init ==
    /\ pc = "idle"
    /\ cmd = "none"
    /\ args = NoArgs
    /\ packet_id = PacketId("INVALID_PACKET")
    /\ payload = <<>>
    /\ resp_length = 0
    /\ i = 0
    /\ j = 0
    /\ rxbuf = <<>>
    /\ rxsrc = <<>>
    /\ waiting = -1
    /\ writes = <<>>
    /\ reads = <<>>
    /\ ret = NoRet
    /\ exc = "none"
    /\ result = <<>>
    /\ c_pc = "off"
    /\ c_id = PacketId("INVALID_PACKET")
    /\ c_payload = <<>>
    /\ c_raw = <<>>
    /\ c_mod = "none"
    /\ c_out = Raised("none")

\* The call enters _transceive_with_retry(id, data, length)
Transceive(id, data, length) ==
    /\ packet_id' = id
    /\ payload' = data
    /\ resp_length' = length
    /\ pc' = "check_atr"
    /\ UNCHANGED <<i, j, rxbuf, rxsrc, waiting, writes, reads, ret, exc,
                   result>>

\* The call ends by raising e before any other step
RaiseAtOnce(e) ==
    /\ pc' = "done"
    /\ exc' = e
    /\ UNCHANGED <<packet_id, payload, resp_length, i, j, rxbuf, rxsrc,
                   waiting, writes, reads, ret, result>>

\* The caller calls set_leds(leds)
CallSetLeds ==
    /\ pc = "idle"
    /\ \E leds \in LedMasks :
         /\ cmd' = "set_leds"
         /\ args' = [NoArgs EXCEPT !.leds = leds]
         /\ Transceive(PacketId("SET_LED"), <<leds>>, RESPONSE_ATR)
    /\ UNCHANGED codecVars

\* The caller calls beep(tones, repeat)
CallBeep ==
    /\ pc = "idle"
    /\ \E in \in BeepInputs :
         LET tones  == [k \in 1..in[1] |-> SampleTone]
             repeat == in[2]
         IN  /\ cmd' = "beep"
             /\ args' = [NoArgs EXCEPT !.tones = tones, !.repeat = repeat]
             /\ IF TooManyTones(tones)
                THEN RaiseAtOnce("ValueError")
                ELSE Transceive(PacketId("BEEP"), BeepPayload(tones, repeat),
                                RESPONSE_ATR)
    /\ UNCHANGED codecVars

\* The caller calls RFID_send(payload)
CallRFIDSend ==
    /\ pc = "idle"
    /\ \E n \in DataLengths :
         LET data == Fill(n, 17)
         IN  /\ cmd' = "RFID_send"
             /\ args' = [NoArgs EXCEPT !.data = data]
             /\ IF TooMuchData(data)
                THEN RaiseAtOnce("ValueError")
                ELSE Transceive(PacketId("RFID_SEND"), data,
                                RfidResponseLength(data))
    /\ UNCHANGED codecVars

\* _check_atr's test with >= in place of ==
ResetSuspectedAtLeast(n) == n >= ATR_WAITING

\* _check_atr: `self.port.inWaiting() == 5`, n being what inWaiting() returned
ResetSuspected(n) == n = ATR_WAITING

\* _check_atr: the inWaiting() test
CheckAtr ==
    /\ pc = "check_atr"
    /\ waiting' = Len(rxbuf)
    /\ IF ResetSuspected(Len(rxbuf))
       THEN pc' = "drain" /\ UNCHANGED i
       ELSE pc' = "tx" /\ i' = 0
    /\ UNCHANGED <<cmd, args, packet_id, payload, resp_length, j, rxbuf,
                   rxsrc, writes, reads, ret, exc, result>>
    /\ UNCHANGED codecVars

\* _check_atr: self._expect_packet(5) and what follows.  port.read returns
\* short on a timeout and raises nothing, so the handler of
\* serial.SerialTimeoutException is never entered; any other exception of
\* _expect_packet leaves _check_atr and the command.
Drain ==
    /\ pc = "drain"
    /\ \E rd \in ReadOutcomes(ATR_WAITING, TRUE) :
         LET r == ExpectPacket(rd.data)
         IN  /\ rxbuf' = rd.rest
             /\ rxsrc' = rd.restsrc
             /\ reads' = Append(reads, ReadRecord("drain", ATR_WAITING, rd, r))
             /\ exc' = IF r.exc = "none" THEN "ResetException" ELSE r.exc
    /\ pc' = "done"
    /\ UNCHANGED <<cmd, args, packet_id, payload, resp_length, i, j, waiting,
                   writes, ret, result>>
    /\ UNCHANGED codecVars

\* Outer loop: self._transmit_packet(packet_id, payload).  The port is
\* opened without a write timeout: write sends every byte before it
\* returns and raises no SerialTimeoutException.
Transmit ==
    /\ pc = "tx"
    /\ writes' = Append(writes, TransmitFrame(packet_id, payload))
    /\ pc' = "rx"
    /\ UNCHANGED <<cmd, args, packet_id, payload, resp_length, i, j, rxbuf,
                   rxsrc, waiting, reads, ret, exc, result>>
    /\ UNCHANGED codecVars

\* The outer loop goes to its next iteration, or is exhausted: the final
\* `raise ReaderError()`
NextOuter ==
    IF i + 1 < OUTER_TRIES
    THEN pc' = "tx" /\ i' = i + 1 /\ UNCHANGED exc
    ELSE pc' = "done" /\ exc' = "ReaderError" /\ UNCHANGED i

\* Outer loop: p, payload = self._expect_packet(resp_length) and the test
\* of p.id
Expect ==
    /\ pc = "rx"
    /\ \E rd \in ReadOutcomes(resp_length, FALSE) :
         LET r == ExpectPacket(rd.data)
         IN  /\ rxbuf' = rd.rest
             /\ rxsrc' = rd.restsrc
             /\ reads' = Append(reads, ReadRecord("outer", resp_length, rd, r))
             /\ CASE r.exc = "CorruptedPacketException" ->
                       /\ pc' = "itx"
                       /\ j' = 0
                       /\ UNCHANGED <<payload, i, ret, exc>>
                  [] r.exc = "IndexError" ->
                       /\ pc' = "done"
                       /\ exc' = "IndexError"
                       /\ UNCHANGED <<payload, i, j, ret>>
                  [] OTHER ->
                       /\ payload' = r.payload
                       /\ IF IntEqEnum(r.p.id, PacketId("RX_ERROR"))
                          THEN NextOuter /\ UNCHANGED <<j, ret>>
                          ELSE /\ pc' = "post"
                               /\ ret' = [p |-> r.p, payload |-> r.payload]
                               /\ UNCHANGED <<i, j, exc>>
    /\ UNCHANGED <<cmd, args, packet_id, resp_length, waiting, writes,
                   result>>
    /\ UNCHANGED codecVars

\* Inner loop: self._transmit_packet(PacketId.RX_ERROR, b'')
InnerTransmit ==
    /\ pc = "itx"
    /\ writes' = Append(writes, TransmitFrame(PacketId("RX_ERROR"), <<>>))
    /\ pc' = "irx"
    /\ UNCHANGED <<cmd, args, packet_id, payload, resp_length, i, j, rxbuf,
                   rxsrc, waiting, reads, ret, exc, result>>
    /\ UNCHANGED codecVars

\* Inner loop: p, payload = self._expect_packet(resp_length) and the test
\* of p.id
InnerExpect ==
    /\ pc = "irx"
    /\ \E rd \in ReadOutcomes(resp_length, FALSE) :
         LET r == ExpectPacket(rd.data)
         IN  /\ rxbuf' = rd.rest
             /\ rxsrc' = rd.restsrc
             /\ reads' = Append(reads, ReadRecord("inner", resp_length, rd, r))
             /\ CASE r.exc = "CorruptedPacketException" ->
                       /\ IF j + 1 < INNER_TRIES
                          THEN pc' = "itx" /\ j' = j + 1 /\ UNCHANGED <<i, exc>>
                          ELSE NextOuter /\ UNCHANGED j
                       /\ UNCHANGED <<payload, ret>>
                  [] r.exc = "IndexError" ->
                       /\ pc' = "done"
                       /\ exc' = "IndexError"
                       /\ UNCHANGED <<payload, i, j, ret>>
                  [] OTHER ->
                       /\ payload' = r.payload
                       /\ IF IntEqEnum(r.p.id, PacketId("RX_ERROR"))
                          THEN /\ pc' = "done"
                               /\ exc' = "ReaderError"
                               /\ UNCHANGED <<i, j, ret>>
                          ELSE /\ pc' = "post"
                               /\ ret' = [p |-> r.p, payload |-> r.payload]
                               /\ UNCHANGED <<i, j, exc>>
    /\ UNCHANGED <<cmd, args, packet_id, resp_length, waiting, writes,
                   result>>
    /\ UNCHANGED codecVars

\* `head.id != PacketId.ACK`: the test against the Enum member itself, which
\* no int equals
IdDiffersFromMember(n, member) == TRUE

\* `head.id != PacketId.ACK.value`
IdDiffers(n, member) == n # member.value

\* The command's own test of head.id once _transceive_with_retry returned
AfterTransceive ==
    /\ pc = "post"
    /\ pc' = "done"
    /\ CASE cmd = "set_leds" ->
              /\ exc' = IF IdDiffers(ret.p.id, PacketId("ACK"))
                        THEN "ReaderError" ELSE "none"
              /\ UNCHANGED result
         [] cmd = "beep" ->
              /\ exc' = IF IdDiffers(ret.p.id, PacketId("ACK"))
                        THEN "CorruptedPacketException" ELSE "none"
              /\ UNCHANGED result
         [] OTHER ->
              /\ exc' = IF IdDiffers(ret.p.id, PacketId("RFID_SEND_COMPLETE"))
                        THEN "ReaderError" ELSE "none"
              /\ result' = IF IdDiffers(ret.p.id, PacketId("RFID_SEND_COMPLETE"))
                           THEN result ELSE ret.payload
    /\ UNCHANGED <<cmd, args, packet_id, payload, resp_length, i, j, rxbuf,
                   rxsrc, waiting, writes, reads, ret>>
    /\ UNCHANGED codecVars

\* The call is over; the caller may issue the next command on the same
\* Reader.  Only the port (rxbuf) outlives a call.
NextCommand ==
    /\ pc = "done"
    /\ pc' = "idle"
    /\ cmd' = "none"
    /\ args' = NoArgs
    /\ packet_id' = PacketId("INVALID_PACKET")
    /\ payload' = <<>>
    /\ resp_length' = 0
    /\ i' = 0
    /\ j' = 0
    /\ writes' = <<>>
    /\ reads' = <<>>
    /\ ret' = NoRet
    /\ exc' = "none"
    /\ result' = <<>>
    /\ waiting' = -1
    /\ UNCHANGED <<rxbuf, rxsrc>>
    /\ UNCHANGED codecVars

\* The device sends bytes on its own while the driver is idle
DeviceUnsolicited ==
    /\ pc = "idle"
    /\ Len(rxbuf) <= MaxPending
    /\ \E f \in Unsolicited :
         /\ rxbuf' = rxbuf \o f
         /\ rxsrc' = rxsrc \o Fill(Len(f), "u")
    /\ UNCHANGED <<pc, cmd, args, packet_id, payload, resp_length, i, j,
                   waiting, writes, reads, ret, exc, result>>
    /\ UNCHANGED codecVars

Next ==
    \/ CallSetLeds
    \/ CallBeep
    \/ CallRFIDSend
    \/ CheckAtr
    \/ Drain
    \/ Transmit
    \/ Expect
    \/ InnerTransmit
    \/ InnerExpect
    \/ AfterTransceive
    \/ NextCommand
    \/ DeviceUnsolicited

Spec == Init /\ [][Next]_vars

----------------------------------------------------------------------------
(* The codec on its own: encode a packet, let the line change the frame,   *)
(* decode what arrives                                                     *)

CodecBytes == {0, 1, 255}
TrailerBytes == {0, 1, 2, 127, 128, 254, 255}

RECURSIVE SeqsUpTo(_, _)
\* all sequences over S of length at most n
SeqsUpTo(S, n) ==
    IF n = 0 THEN {<<>>}
    ELSE LET shorter == SeqsUpTo(S, n - 1)
         IN  shorter \cup {Append(q, x) : q \in shorter, x \in S}

\* The packets the codec is exercised on: every packet id with every short
\* payload, and the two RFID ids with a payload of MAX_RFID_PAYLOAD bytes
\* and with one of 255 bytes, the longest a length byte can announce
CodecInputs ==
    (PacketIdMembers \X SeqsUpTo(CodecBytes, CodecMaxLen))
    \cup ({PacketId("RFID_SEND"), PacketId("RFID_SEND_COMPLETE")}
            \X {Fill(MAX_RFID_PAYLOAD, 17), Fill(255, 255)})

CodecInit ==
    /\ pc = "idle"
    /\ cmd = "none"
    /\ args = NoArgs
    /\ packet_id = PacketId("INVALID_PACKET")
    /\ payload = <<>>
    /\ resp_length = 0
    /\ i = 0
    /\ j = 0
    /\ rxbuf = <<>>
    /\ rxsrc = <<>>
    /\ waiting = -1
    /\ writes = <<>>
    /\ reads = <<>>
    /\ ret = NoRet
    /\ exc = "none"
    /\ result = <<>>
    /\ c_pc = "start"
    /\ \E in \in CodecInputs : c_id = in[1] /\ c_payload = in[2]
    /\ c_raw = <<>>
    /\ c_mod = "none"
    /\ c_out = Raised("none")

\* _transmit_packet(c_id, c_payload): the frame goes on the line
CodecEncode ==
    /\ c_pc = "start"
    /\ c_raw' = TransmitFrame(c_id, c_payload)
    /\ c_pc' = "framed"
    /\ UNCHANGED <<c_id, c_payload, c_mod, c_out>>
    /\ UNCHANGED readerVars

\* The line inverts one bit of the frame
CodecFlip ==
    /\ c_pc = "framed"
    /\ c_mod = "none"
    /\ \E pos \in 1..Len(c_raw), bit \in 0..7 :
         c_raw' = FlipBit(c_raw, pos, bit)
    /\ c_mod' = "flipped"
    /\ UNCHANGED <<c_pc, c_id, c_payload, c_out>>
    /\ UNCHANGED readerVars

\* The read times out: only the first k bytes of the frame arrive
CodecCut ==
    /\ c_pc = "framed"
    /\ c_mod = "none"
    /\ \E k \in 0..(Len(c_raw) - 1) : c_raw' = SubSeq(c_raw, 1, k)
    /\ c_mod' = "cut"
    /\ UNCHANGED <<c_pc, c_id, c_payload, c_out>>
    /\ UNCHANGED readerVars

\* The line replaces the trailing byte by another value
CodecTrailer ==
    /\ c_pc = "framed"
    /\ c_mod = "none"
    /\ \E b \in TrailerBytes \ {c_raw[Len(c_raw)]} :
         c_raw' = [c_raw EXCEPT ![Len(c_raw)] = b]
    /\ c_mod' = "trailer"
    /\ UNCHANGED <<c_pc, c_id, c_payload, c_out>>
    /\ UNCHANGED readerVars

\* _expect_packet on the bytes that arrived
CodecDecode ==
    /\ c_pc = "framed"
    /\ c_out' = ExpectPacket(c_raw)
    /\ c_pc' = "decoded"
    /\ UNCHANGED <<c_id, c_payload, c_raw, c_mod>>
    /\ UNCHANGED readerVars

CodecNext ==
    \/ CodecEncode
    \/ CodecFlip
    \/ CodecCut
    \/ CodecTrailer
    \/ CodecDecode

CodecSpec == CodecInit /\ [][CodecNext]_vars

----------------------------------------------------------------------------
(* Histories read by the claims *)

LastRead == reads[Len(reads)]

\* The frame of the inner loop: RX_ERROR with an empty payload
RxErrorFrame == TransmitFrame(PacketId("RX_ERROR"), <<>>)

\* How many RX_ERROR packets this call has written
RxErrorWrites == Cardinality({k \in DOMAIN writes : writes[k] = RxErrorFrame})

\* Every read of this call awaited a response (none was the drain of
\* _check_atr) and none of them decoded
NoResponseDecoded ==
    /\ reads # <<>>
    /\ \A k \in DOMAIN reads : reads[k].at # "drain" /\ reads[k].exc # "none"

\* The call went through _check_atr's drain: exactly 5 bytes were waiting
Drained == reads # <<>> /\ reads[1].at = "drain"

----------------------------------------------------------------------------
(* Claims *)

\* C1: if every response read during one transceive call fails to decode,
\* the call fails with ReaderError after exactly 2 x 2 = 4 transmissions of
\* an RX_ERROR packet.
C1_AllCorruptGivesFaultAfterFour ==
    (pc = "done" /\ NoResponseDecoded)
        => (exc = "ReaderError" /\ RxErrorWrites = 4)

\* C2: if in the inner recovery loop the response to an RX_ERROR packet
\* decodes with id RX_ERROR (0xFF), transceive fails at once with
\* ReaderError: nothing more is written or read and the packet is not
\* returned.
C2_InnerRxErrorIsFatal ==
    (reads # <<>> /\ LastRead.at = "inner" /\ LastRead.exc = "none"
        /\ LastRead.id = PacketIdValue.RX_ERROR)
        => (pc = "done" /\ exc = "ReaderError" /\ ret = NoRet)

\* C3: if the response to the original transmission decodes with id
\* RX_ERROR (0xFF), transceive does not return that packet: it goes on
\* with the outer loop and retransmits, or raises ReaderError when the
\* outer loop is exhausted.
C3_OuterRxErrorRetransmits ==
    (reads # <<>> /\ LastRead.at = "outer" /\ LastRead.exc = "none"
        /\ LastRead.id = PacketIdValue.RX_ERROR)
        => /\ ret = NoRet
           /\ pc \in {"tx", "rx", "done"}
           /\ pc = "done" => exc = "ReaderError"

\* C4: when exactly 5 bytes are waiting before a command and the read of
\* those 5 bytes returns all 5, the command raises ResetException and
\* writes nothing, whatever the 5 bytes are.
C4_DrainedResetRaisesReset ==
    (pc = "done" /\ Drained /\ ~reads[1].short)
        => (exc = "ResetException" /\ writes = <<>>)

\* C5: when exactly 5 bytes are waiting but the drain read times out
\* (fewer than 5 bytes are returned), the command raises ReaderError.
C5_DrainTimeoutRaisesReaderError ==
    (pc = "done" /\ Drained /\ reads[1].short) => exc = "ReaderError"

\* C6: the only failures that reach the caller of a public command are
\* ResetException, ReaderError and ValueError; CorruptedPacketException
\* never surfaces.
C6_OnlyPublicErrors ==
    pc = "done" => exc \in {"none", "ResetException", "ReaderError", "ValueError"}

\* C7: beep with more than 8 tones and RFID_send with more than 128 payload
\* bytes fail with ValueError without any write to the port.
C7_OversizeRejectedBeforeIO ==
    (/\ pc = "done"
     /\ \/ cmd = "beep" /\ Len(args.tones) > 8
        \/ cmd = "RFID_send" /\ Len(args.data) > 128)
        => (exc = "ValueError" /\ writes = <<>>)

\* C7 witness: beep called with 9 tones has ended
C7_Witness ==
    pc = "done" /\ cmd = "beep" /\ Len(args.tones) = 9 /\ exc = "ValueError"

\* C8: decoding the frame produced by encoding (id, payload) succeeds and
\* yields id, length = len(payload) and the same payload bytes.
C8_RoundTrip ==
    (c_pc = "decoded" /\ c_mod = "none")
        => /\ c_out.exc = "none"
           /\ c_out.p.id = c_id.value
           /\ c_out.p.length = Len(c_payload)
           /\ c_out.payload = c_payload

\* C8 witness: an RX_ERROR frame with a payload of two bytes was decoded
C8_Witness ==
    /\ c_pc = "decoded"
    /\ c_mod = "none"
    /\ c_id = PacketId("RX_ERROR")
    /\ c_payload = <<255, 1>>
    /\ c_out.exc = "none"

\* C9: flipping any single bit of an encoded frame makes decode fail with
\* CorruptedPacketException.
C9_SingleBitFlipDetected ==
    (c_pc = "decoded" /\ c_mod = "flipped")
        => c_out.exc = "CorruptedPacketException"

\* C9 witness: a frame whose length byte had a bit flipped was decoded
C9_Witness ==
    /\ c_pc = "decoded"
    /\ c_mod = "flipped"
    /\ c_raw[1] = c_id.value
    /\ c_raw[2] # Len(c_payload)
    /\ c_out.exc = "CorruptedPacketException"

\* The trailing byte of raw differs from id ^ length ^ every payload byte
TrailerMismatch(raw) ==
    /\ Len(raw) >= 3
    /\ raw[Len(raw)] #
         XorAll(Xor(raw[1], raw[2]), SubSeq(raw, 3, Len(raw) - 1))

\* C10: decode fails with CorruptedPacketException, and with no other
\* error, for every input of 0, 1 or 2 bytes and for every input whose
\* trailing byte differs from the XOR of id, length and payload bytes.
C10_ShortOrMismatchIsCorrupted ==
    (c_pc = "decoded" /\ (Len(c_raw) <= 2 \/ TrailerMismatch(c_raw)))
        => c_out.exc = "CorruptedPacketException"

----------------------------------------------------------------------------
(* Histories read by the claims about whole calls *)

\* The payload the caller's arguments stand for, before any reassignment
OriginalPayload ==
    CASE cmd = "set_leds" -> <<args.leds>>
      [] cmd = "beep" -> BeepPayload(args.tones, args.repeat)
      [] OTHER -> args.data

\* The encoding of the original id and the original payload
OriginalFrame == TransmitFrame(packet_id, OriginalPayload)

\* The reads of this call that awaited a response
ResponseReads == {k \in DOMAIN reads : reads[k].at # "drain"}

\* C11: set_leds, with no reset notification buffered and a port that at
\* once returns a valid 5-byte packet with id ACK, succeeds with exactly
\* one write and exactly one read.
C11_SetLedsAckOneWriteOneRead ==
    (/\ pc = "done"
     /\ cmd = "set_leds"
     /\ waiting # ATR_WAITING
     /\ reads # <<>>
     /\ reads[1].exc = "none"
     /\ ~reads[1].short
     /\ reads[1].id = PacketIdValue.ACK)
        => (exc = "none" /\ Len(writes) = 1 /\ Len(reads) = 1)

\* C11 witness: set_leds has ended after its first read returned an ACK
C11_Witness ==
    /\ pc = "done"
    /\ cmd = "set_leds"
    /\ waiting = 0
    /\ Len(reads) = 1
    /\ reads[1].at = "outer"
    /\ reads[1].exc = "none"
    /\ reads[1].id = PacketIdValue.ACK
    /\ writes = <<OriginalFrame>>
    /\ exc = "none"

\* The call has ended after _transceive_with_retry returned a response
ResponseReturned ==
    /\ pc = "done"
    /\ reads # <<>>
    /\ reads[Len(reads)].at # "drain"
    /\ reads[Len(reads)].exc = "none"

\* C12: RFID_send with a payload of at most 128 bytes asks for
\* len(payload) + 3 bytes on every read of its transaction, returns the
\* payload of the response exactly when the response id is
\* RFID_SEND_COMPLETE, and raises ReaderError for any other response id.
C12_RfidSendLengthAndResult ==
    (cmd = "RFID_send" /\ ~TooMuchData(args.data))
        => /\ \A k \in ResponseReads :
                reads[k].n = Len(args.data) + TRANSMIT_OVERHEAD
           /\ ResponseReturned =>
                IF ret.p.id = PacketIdValue.RFID_SEND_COMPLETE
                THEN exc = "none" /\ result = ret.payload
                ELSE exc = "ReaderError"
           /\ (pc = "done" /\ exc = "none") =>
                (ResponseReturned
                    /\ ret.p.id = PacketIdValue.RFID_SEND_COMPLETE)

\* C12 witness: RFID_send of 128 bytes has returned the 128 payload bytes
\* of an RFID_SEND_COMPLETE response read in one read of 131 bytes
C12_Witness ==
    /\ ResponseReturned
    /\ cmd = "RFID_send"
    /\ Len(args.data) = MAX_RFID_PAYLOAD
    /\ reads[Len(reads)].n = MAX_RFID_PAYLOAD + TRANSMIT_OVERHEAD
    /\ ret.p.id = PacketIdValue.RFID_SEND_COMPLETE
    /\ exc = "none"
    /\ Len(result) = MAX_RFID_PAYLOAD
    /\ result = ret.payload

\* C12 second case: RFID_send has raised ReaderError for an ACK response
C12_WitnessOtherId ==
    /\ ResponseReturned
    /\ cmd = "RFID_send"
    /\ ret.p.id = PacketIdValue.ACK
    /\ exc = "ReaderError"

\* The steps of one outer iteration: a write and a read, then a write and
\* a read in each inner iteration
OuterSteps == 2 + INNER_TRIES * 2

\* The most steps the call can still take from where it is
StepsLeft ==
    CASE pc = "check_atr" -> OUTER_TRIES * OuterSteps + 3
      [] pc = "drain" -> 1
      [] pc = "tx" -> (OUTER_TRIES - i) * OuterSteps + 1
      [] pc = "rx" -> (OUTER_TRIES - i) * OuterSteps
      [] pc = "itx" ->
            (OUTER_TRIES - 1 - i) * OuterSteps + (INNER_TRIES - j) * 2 + 1
      [] pc = "irx" ->
            (OUTER_TRIES - 1 - i) * OuterSteps + (INNER_TRIES - j) * 2
      [] pc = "post" -> 1
      [] OTHER -> 0

\* The outcomes named terminal: success, detected reset, or fault
TerminalOutcomes == {"none", "ResetException", "ReaderError"}

\* C13: every command call reaches a terminal outcome (success, detected
\* reset, or fault) after a bounded number of steps: one
\* _transceive_with_retry makes at most 2 * (1 + 2) = 6 response read
\* attempts, whatever the device does.
C13_TerminalOutcomeWithinSixReads ==
    /\ Cardinality(ResponseReads) <= OUTER_TRIES * (1 + INNER_TRIES)
    /\ (pc = "done" /\ waiting # -1) => exc \in TerminalOutcomes

\* The bound alone: each step of a call leaves fewer steps to take, and a
\* call makes at most six response reads and six writes
BoundedReadAttempts ==
    /\ [](/\ Cardinality(ResponseReads) <= OUTER_TRIES * (1 + INNER_TRIES)
          /\ Len(writes) <= OUTER_TRIES * (1 + INNER_TRIES)
          /\ StepsLeft >= 0)
    /\ [][(pc \notin {"idle", "done"} /\ <<pc, i, j>>' # <<pc, i, j>>)
            => StepsLeft' < StepsLeft]_vars

\* A call has ended after six response read attempts
SixReadAttempts ==
    /\ pc = "done"
    /\ Cardinality(ResponseReads) = OUTER_TRIES * (1 + INNER_TRIES)
    /\ Len(writes) = OUTER_TRIES * (1 + INNER_TRIES)
    /\ exc = "ReaderError"

\* C14: within one _transceive_with_retry every frame the outer loop
\* writes, the first and every retransmission, encodes the id and the
\* payload the caller passed; only the inner loop writes another frame,
\* and that frame is always RX_ERROR with an empty payload.
C14_OuterWritesOriginalInnerRxError ==
    [][/\ (pc = "tx" /\ pc' = "rx")
            => writes' = Append(writes, OriginalFrame)
       /\ (pc = "itx" /\ pc' = "irx")
            => writes' = Append(writes, RxErrorFrame)
       /\ (writes' # writes /\ pc # "done")
            => pc \in {"tx", "itx"}]_vars

\* C14 witness: the outer loop has retransmitted the original frame of a
\* beep after the inner loop wrote its two RX_ERROR frames
C14_Witness ==
    /\ pc = "rx"
    /\ i = 1
    /\ cmd = "beep"
    /\ writes = <<OriginalFrame, RxErrorFrame, RxErrorFrame, OriginalFrame>>
    /\ OriginalFrame = TransmitFrame(PacketId("BEEP"),
                                     BeepPayload(args.tones, args.repeat))

\* C15: every packet that _expect_packet accepts satisfies the Packet
\* invariant: its payload has exactly as many bytes as its length field
\* says, and its checksum is the XOR of id, length and every payload byte.
C15_AcceptedPacketWellFormed ==
    (c_pc = "decoded" /\ c_out.exc = "none")
        => /\ Len(c_out.payload) = c_out.p.length
           /\ c_raw[Len(c_raw)]
                = XorAll(Xor(c_out.p.id, c_out.p.length), c_out.payload)

\* C16: _transceive_with_retry returns the first response that decodes
\* with an id other than RX_ERROR, be it read in the outer loop or in the
\* inner one, and writes and reads nothing after that read.
C16_ReturnsFirstNonRxErrorResponse ==
    /\ \A k \in ResponseReads :
         (reads[k].exc = "none" /\ reads[k].id # PacketIdValue.RX_ERROR)
            => /\ k = Len(reads)
               /\ Len(writes) = Cardinality(ResponseReads)
               /\ pc \in {"post", "done"}
               /\ ret.p.id = reads[k].id
    /\ pc = "post"
         => /\ ret.p.id # PacketIdValue.RX_ERROR
            /\ reads[Len(reads)].exc = "none"
            /\ ret.p.id = reads[Len(reads)].id

\* The half of C16 about responses of another id, which the code meets
ReturnsAtOnce ==
    \A k \in ResponseReads :
        (reads[k].exc = "none" /\ reads[k].id # PacketIdValue.RX_ERROR)
            => /\ k = Len(reads)
               /\ Len(writes) = Cardinality(ResponseReads)
               /\ pc \in {"post", "done"}
               /\ ret.p.id = reads[k].id

\* C17: the reset check runs once per command, before the first
\* transmission; when the count of buffered bytes is anything but exactly
\* 5 the check reads nothing and raises nothing, and the first port I/O of
\* the call is the write of the command packet.
C17_ResetCheckOnceAndSilent ==
    /\ [](/\ (writes # <<>> \/ reads # <<>>) => waiting # -1
          /\ (waiting \notin {-1, ATR_WAITING})
                => /\ \A k \in DOMAIN reads : reads[k].at # "drain"
                   /\ Len(reads) <= Len(writes)
                   /\ writes # <<>> => writes[1] = OriginalFrame
                   /\ exc # "ResetException")
    /\ [][/\ (waiting' # waiting /\ pc # "done")
                => (pc = "check_atr" /\ waiting = -1 /\ waiting' = Len(rxbuf))
          /\ (pc = "check_atr" /\ pc' # pc /\ Len(rxbuf) # ATR_WAITING)
                => /\ pc' = "tx"
                   /\ UNCHANGED <<rxbuf, reads, writes, exc>>]_vars

\* C17 witness: three stale bytes were buffered at the reset check, and
\* the only port I/O so far is the write of the command packet
C17_Witness ==
    /\ pc = "rx"
    /\ waiting = 3
    /\ Len(rxbuf) >= 3
    /\ reads = <<>>
    /\ writes = <<OriginalFrame>>
    /\ exc = "none"

\* The call in progress has an argument over its documented bound
Oversize ==
    \/ cmd = "beep" /\ Len(args.tones) > MAX_BEEP_LENGTH
    \/ cmd = "RFID_send" /\ Len(args.data) > MAX_RFID_PAYLOAD

\* C18: validation comes before the reset check: beep with more than 8
\* tones and RFID_send with more than 128 bytes raise ValueError even when
\* exactly 5 bytes are waiting, and leave the port untouched: inWaiting is
\* not asked, nothing is read or written, the buffered bytes stay.
C18_ValidationBeforeResetCheck ==
    /\ []((pc # "idle" /\ Oversize)
            => /\ pc = "done"
               /\ exc = "ValueError"
               /\ waiting = -1
               /\ reads = <<>>
               /\ writes = <<>>)
    /\ [][(pc = "idle" /\ pc' # pc /\ Oversize')
            => UNCHANGED <<rxbuf, rxsrc>>]_vars

\* C18 witness: RFID_send of 129 bytes has raised ValueError while the 5
\* late bytes an earlier command left were waiting
C18_Witness ==
    /\ pc = "done"
    /\ cmd = "RFID_send"
    /\ Len(args.data) = MAX_RFID_PAYLOAD + 1
    /\ exc = "ValueError"
    /\ Len(rxbuf) = ATR_WAITING
    /\ rxsrc = Fill(ATR_WAITING, "r")
    /\ waiting = -1

ResetOnlyOnFiveWaiting ==
    (pc = "done" /\ exc = "ResetException")
        => /\ waiting = ATR_WAITING
           /\ Len(reads) = 1
           /\ reads[1].at = "drain"
           /\ reads[1].exc = "none"
           /\ writes = <<>>

====
